---- MODULE Spec2Model ----
(***************************************************************************)
(* State-machine model of src/lib.rs: RingBuffer, SortedSet, prime_sieve / *)
(* count_primes, matrix_multiply, slugify and extract_emails.              *)
(*                                                                         *)
(* The components do not interact, so each one has its own specification   *)
(* (SpecRing, SpecSet, SpecSieve, SpecMatrix, SpecSlug, SpecEmail); in     *)
(* each, the variables of the other components stay at their idle value.   *)
(* f64 samples and matrix entries are modelled by small integers, on which *)
(* f64 arithmetic is exact.  Option<T> is [some |-> FALSE] or              *)
(* [some |-> TRUE, val |-> x]; a char is a one-character string and a      *)
(* String a sequence of chars.                                             *)
(***************************************************************************)
EXTENDS Integers, Sequences, FiniteSets, TLC

VARIABLES
    capacity, buffer, head, len,   \* RingBuffer's fields
    pushed,                        \* history: every value pushed so far, in order
    data,                          \* SortedSet's field
    call,                          \* the SortedSet call that ended last: arguments,
                                   \* contents before it, and what it returned
    n, sieve_ret, count_ret,       \* argument and results of the two sieve entry points
    mm_args, mm_ret,               \* arguments and result of matrix_multiply
    slug_text, slug_ret,           \* argument and result of slugify
    email_text, email_ret          \* argument and result of extract_emails

ringVars  == <<capacity, buffer, head, len, pushed>>
setVars   == <<data, call>>
sieveVars == <<n, sieve_ret, count_ret>>
mmVars    == <<mm_args, mm_ret>>
slugVars  == <<slug_text, slug_ret>>
emailVars == <<email_text, email_ret>>
vars == <<ringVars, setVars, sieveVars, mmVars, slugVars, emailVars>>

\* ----------------------------------------------------------------- bounds
MaxCap == 3
MaxPushes == 7
MaxValue == 2
MaxKey == 4
MaxN == 50
MaxDim == 2
MaxFlat == 4
MaxEntry == 2
MaxSlugLen == 4
MaxEmailLen == 5

\* ---------------------------------------------------------------- helpers
None == [some |-> FALSE]
Some(x) == [some |-> TRUE, val |-> x]
NotCalled == [called |-> FALSE]
Returned(x) == [called |-> TRUE, val |-> x]

Min(x, y) == IF x < y THEN x ELSE y

\* The last k elements of s, in order.
LastN(s, k) == SubSeq(s, Len(s) - k + 1, Len(s))

Elems(s) == {s[i] : i \in 1..Len(s)}

StrictlyAscending(s) == \A i \in 1..(Len(s) - 1) : s[i] < s[i + 1]

\* ============================================================ RingBuffer
Values == 1..MaxValue

IdleRing ==
    /\ capacity = 1
    /\ buffer = [i \in 0..0 |-> 0]
    /\ head = 0
    /\ len = 0
    /\ pushed = <<>>

\* RingBuffer::new(c) for c > 0; new(0) returns Err and constructs nothing.
RingNew(c) ==
    /\ c # 0
    /\ capacity = c
    /\ buffer = [i \in 0..(c - 1) |-> 0]
    /\ head = 0
    /\ len = 0

push(value) ==
    /\ Len(pushed) < MaxPushes
    /\ buffer' = [buffer EXCEPT ![head] = value]
    /\ head' = (head + 1) % capacity
    /\ len' = IF len < capacity THEN len + 1 ELSE len
    /\ pushed' = Append(pushed, value)
    /\ UNCHANGED capacity

to_list_from_slot_zero ==
    IF len < capacity
        THEN [i \in 1..len |-> buffer[i - 1]]
        ELSE [i \in 1..capacity |-> buffer[i - 1]]

to_list ==
    IF len < capacity
        THEN [i \in 1..len |-> buffer[i - 1]]
        ELSE [i \in 1..capacity |-> buffer[(head + (i - 1)) % capacity]]

latest_no_wrap ==
    IF len = 0
        THEN None
        ELSE Some(buffer[IF head = 0 THEN 0 ELSE head - 1])

latest ==
    IF len = 0
        THEN None
        ELSE Some(buffer[IF head = 0 THEN capacity - 1 ELSE head - 1])

is_full == len = capacity

ring_len == len

InitRing ==
    /\ \E c \in 0..MaxCap : RingNew(c)
    /\ pushed = <<>>
    /\ data = <<>> /\ call = [op |-> "none"]
    /\ n = 0 /\ sieve_ret = NotCalled /\ count_ret = NotCalled
    /\ mm_args = [a |-> <<>>] /\ mm_ret = NotCalled
    /\ slug_text = <<>> /\ slug_ret = NotCalled
    /\ email_text = <<>> /\ email_ret = NotCalled

Push ==
    /\ \E value \in Values : push(value)
    /\ UNCHANGED <<setVars, sieveVars, mmVars, slugVars, emailVars>>

NextRing == Push

SpecRing == InitRing /\ [][NextRing]_vars

\* C1: after k pushes onto a fresh buffer of capacity c, to_list() has length
\* min(k, c) and is the last min(k, c) pushed values, oldest first, however
\* often the write cursor has wrapped.
C1_ToListIsWindow ==
    /\ Len(to_list) = Min(Len(pushed), capacity)
    /\ to_list = LastN(pushed, Min(Len(pushed), capacity))

\* The cursor has wrapped twice and the window holds distinct values.
C1_Witness ==
    /\ capacity >= 2
    /\ Len(pushed) > 2 * capacity
    /\ head # 0
    /\ to_list[1] # to_list[Len(to_list)]

\* C10: after k pushes, latest() is the last pushed value (None when k = 0),
\* is_full() holds iff k >= c, and len() is min(k, c).
C10_Observers ==
    /\ latest = IF Len(pushed) > 0 THEN Some(pushed[Len(pushed)]) ELSE None
    /\ is_full <=> (Len(pushed) >= capacity)
    /\ ring_len = Min(Len(pushed), capacity)

\* The newest value sits in the last slot, read with the cursor back at 0.
C10_Witness ==
    /\ capacity >= 2
    /\ Len(pushed) = 2 * capacity
    /\ head = 0
    /\ is_full
    /\ latest = Some(pushed[Len(pushed)])
    /\ buffer[0] # buffer[capacity - 1]

\* ============================================================= SortedSet
Keys == 1..MaxKey
\* range() is also asked about keys below and above every stored key.
RangeKeys == 0..(MaxKey + 1)

\* [T]::binary_search over the half-open index range [lo, hi) of the 0-based
\* vector s: Ok(pos) as [found |-> TRUE, pos], Err(pos) as [found |-> FALSE, pos]
\* with pos the insertion point.
RECURSIVE bsearch(_, _, _, _)
bsearch(s, value, lo, hi) ==
    IF lo >= hi
        THEN [found |-> FALSE, pos |-> lo]
        ELSE LET mid == lo + ((hi - lo) \div 2)
             IN  IF s[mid + 1] = value
                     THEN [found |-> TRUE, pos |-> mid]
                     ELSE IF s[mid + 1] < value
                              THEN bsearch(s, value, mid + 1, hi)
                              ELSE bsearch(s, value, lo, mid)

binary_search(s, value) == bsearch(s, value, 0, Len(s))

\* Vec::insert(pos, value) and Vec::remove(pos), pos 0-based.
vec_insert(s, pos, value) ==
    SubSeq(s, 1, pos) \o <<value>> \o SubSeq(s, pos + 1, Len(s))

vec_remove(s, pos) == SubSeq(s, 1, pos) \o SubSeq(s, pos + 2, Len(s))

insert_ignoring_match(value) ==
    LET r == binary_search(data, value)
    IN  /\ data' = vec_insert(data, r.pos, value)
        /\ call' = [op |-> "insert", value |-> value, before |-> data, ret |-> TRUE]

insert(value) ==
    LET r == binary_search(data, value)
    IN  IF r.found
            THEN /\ data' = data
                 /\ call' = [op |-> "insert", value |-> value, before |-> data,
                             ret |-> FALSE]
            ELSE /\ data' = vec_insert(data, r.pos, value)
                 /\ call' = [op |-> "insert", value |-> value, before |-> data,
                             ret |-> TRUE]

contains(value) ==
    /\ call' = [op |-> "contains", value |-> value, before |-> data,
                ret |-> binary_search(data, value).found]
    /\ data' = data

remove_at_insertion_point(value) ==
    LET r == binary_search(data, value)
    IN  IF r.found \/ r.pos < Len(data)
            THEN /\ data' = vec_remove(data, r.pos)
                 /\ call' = [op |-> "remove", value |-> value, before |-> data,
                             ret |-> TRUE]
            ELSE /\ data' = data
                 /\ call' = [op |-> "remove", value |-> value, before |-> data,
                             ret |-> FALSE]

remove(value) ==
    LET r == binary_search(data, value)
    IN  IF r.found
            THEN /\ data' = vec_remove(data, r.pos)
                 /\ call' = [op |-> "remove", value |-> value, before |-> data,
                             ret |-> TRUE]
            ELSE /\ data' = data
                 /\ call' = [op |-> "remove", value |-> value, before |-> data,
                             ret |-> FALSE]

set_to_list == data

\* self.data[start..end]: the slice expression panics when start > end (or
\* end > len); otherwise it is the elements at 0-based indices start..end-1.
slice(s, start, end) ==
    IF start > end \/ end > Len(s)
        THEN [panic |-> TRUE, val |-> <<>>]
        ELSE [panic |-> FALSE, val |-> SubSeq(s, start + 1, end)]

range(low, high) ==
    LET lo == binary_search(data, low)
        hi == binary_search(data, high)
        start == lo.pos
        end == IF hi.found THEN hi.pos + 1 ELSE hi.pos
    IN  /\ call' = [op |-> "range", low |-> low, high |-> high, before |-> data,
                    ret |-> slice(data, start, end)]
        /\ data' = data

InitSet ==
    /\ data = <<>>
    /\ call = [op |-> "new"]
    /\ IdleRing
    /\ n = 0 /\ sieve_ret = NotCalled /\ count_ret = NotCalled
    /\ mm_args = [a |-> <<>>] /\ mm_ret = NotCalled
    /\ slug_text = <<>> /\ slug_ret = NotCalled
    /\ email_text = <<>> /\ email_ret = NotCalled

Insert ==
    /\ \E value \in Keys : insert(value)
    /\ UNCHANGED <<ringVars, sieveVars, mmVars, slugVars, emailVars>>

Contains ==
    /\ \E value \in Keys : contains(value)
    /\ UNCHANGED <<ringVars, sieveVars, mmVars, slugVars, emailVars>>

Remove ==
    /\ \E value \in Keys : remove(value)
    /\ UNCHANGED <<ringVars, sieveVars, mmVars, slugVars, emailVars>>

Range ==
    /\ \E low \in RangeKeys, high \in RangeKeys : range(low, high)
    /\ UNCHANGED <<ringVars, sieveVars, mmVars, slugVars, emailVars>>

NextSet == Insert \/ Contains \/ Remove \/ Range

SpecSet == InitSet /\ [][NextSet]_vars

\* The stored elements x with low <= x <= high, ascending.
RECURSIVE Between(_, _, _)
Between(s, low, high) ==
    IF s = <<>>
        THEN <<>>
        ELSE (IF low <= Head(s) /\ Head(s) <= high THEN <<Head(s)>> ELSE <<>>)
                 \o Between(Tail(s), low, high)

\* C2: for all low and high, low > high included, range(low, high) completes
\* without failure and returns exactly the stored x with low <= x <= high,
\* ascending (so the empty sequence when low > high).
C2_RangeTotal ==
    call.op = "range" =>
        /\ ~call.ret.panic
        /\ call.ret.val = Between(call.before, call.low, call.high)

\* C3: after any sequence of insert and remove calls on a set that starts
\* empty, to_list() is strictly ascending, hence free of duplicates.
C3_StrictlyAscending == StrictlyAscending(set_to_list)

\* After at least three inserts, a remove took a key from strictly inside
\* the sequence.
C3_Witness ==
    /\ call.op = "remove" /\ call.ret
    /\ Len(call.before) >= 3
    /\ call.before[1] < call.value
    /\ call.value < call.before[Len(call.before)]
    /\ Len(data) = Len(call.before) - 1

\* C4: the set semantics of insert, remove and contains.  insert(v) returns
\* true exactly when v was absent before (and v is present afterwards), and
\* false with the contents unchanged otherwise; remove(v) returns true exactly
\* when v was present before (and v is absent afterwards), and false with the
\* contents unchanged otherwise; contains(v) is true exactly when v is stored.
C4_SetSemantics ==
    /\ call.op = "insert" =>
          /\ call.ret <=> (call.value \notin Elems(call.before))
          /\ Elems(data) = Elems(call.before) \cup {call.value}
          /\ ~call.ret => data = call.before
    /\ call.op = "remove" =>
          /\ call.ret <=> (call.value \in Elems(call.before))
          /\ Elems(data) = Elems(call.before) \ {call.value}
          /\ ~call.ret => data = call.before
    /\ call.op = "contains" =>
          /\ call.ret <=> (call.value \in Elems(data))
          /\ data = call.before

\* A remove of a key that is absent although larger keys are stored.
C4_WitnessRemoveAbsent ==
    /\ call.op = "remove" /\ ~call.ret
    /\ call.before # <<>>
    /\ call.value < call.before[Len(call.before)]
    /\ data = call.before

\* ================================================ prime_sieve, count_primes
\* (n as f64).sqrt() as usize: the square root rounded to f64 and truncated.
\* For the n modelled here (far below 2^52) that is the integer square root.
sqrt_as_usize(x) == CHOOSE r \in 0..x : r * r <= x /\ (r + 1) * (r + 1) > x

\* let mut j = from; while j <= upto { is_prime[j] = false; j += i; }
RECURSIVE mark_multiples(_, _, _, _)
mark_multiples(is_prime, j, i, upto) ==
    IF j <= upto
        THEN mark_multiples([is_prime EXCEPT ![j] = FALSE], j + i, i, upto)
        ELSE is_prime

\* for i in i..=limit { if is_prime[i] { mark from i*i while j <= upto } }
RECURSIVE sieve_loop(_, _, _, _)
sieve_loop(is_prime, i, limit, upto) ==
    IF i > limit
        THEN is_prime
        ELSE sieve_loop(IF is_prime[i]
                            THEN mark_multiples(is_prime, i * i, i, upto)
                            ELSE is_prime,
                        i + 1, limit, upto)

\* vec![true; m + 1] with entries 0 and 1 cleared (m >= 2).
fresh_flags(m) == [k \in 0..m |-> k >= 2]

\* The indices i in from..=m with is_prime[i], ascending.
RECURSIVE collect_true(_, _, _)
collect_true(is_prime, from, m) ==
    IF from > m
        THEN <<>>
        ELSE (IF is_prime[from] THEN <<from>> ELSE <<>>)
                 \o collect_true(is_prime, from + 1, m)

prime_sieve_stops_before_n(m) ==
    IF m < 2
        THEN <<>>
        ELSE collect_true(sieve_loop(fresh_flags(m), 2, sqrt_as_usize(m), m - 1), 0, m)

prime_sieve(m) ==
    IF m < 2
        THEN <<>>
        ELSE collect_true(sieve_loop(fresh_flags(m), 2, sqrt_as_usize(m), m), 0, m)

count_primes_limit_exclusive(m) ==
    IF m < 2
        THEN 0
        ELSE LET is_prime == sieve_loop(fresh_flags(m), 2, sqrt_as_usize(m) - 1, m)
             IN  Cardinality({k \in 0..m : is_prime[k]})

count_primes(m) ==
    IF m < 2
        THEN 0
        ELSE LET is_prime == sieve_loop(fresh_flags(m), 2, sqrt_as_usize(m), m)
             IN  Cardinality({k \in 0..m : is_prime[k]})

InitSieve ==
    /\ n \in 0..MaxN
    /\ sieve_ret = NotCalled
    /\ count_ret = NotCalled
    /\ IdleRing
    /\ data = <<>> /\ call = [op |-> "none"]
    /\ mm_args = [a |-> <<>>] /\ mm_ret = NotCalled
    /\ slug_text = <<>> /\ slug_ret = NotCalled
    /\ email_text = <<>> /\ email_ret = NotCalled

CallPrimeSieve ==
    /\ ~sieve_ret.called
    /\ sieve_ret' = Returned(prime_sieve(n))
    /\ UNCHANGED <<n, count_ret, ringVars, setVars, mmVars, slugVars, emailVars>>

CallCountPrimes ==
    /\ ~count_ret.called
    /\ count_ret' = Returned(count_primes(n))
    /\ UNCHANGED <<n, sieve_ret, ringVars, setVars, mmVars, slugVars, emailVars>>

NextSieve == CallPrimeSieve \/ CallCountPrimes

SpecSieve == InitSieve /\ [][NextSieve]_vars

\* p is prime: p >= 2 with no divisor strictly between 1 and p.
IsPrime(p) == p >= 2 /\ \A d \in 2..(p - 1) : p % d # 0

\* C6: prime_sieve(n) returns exactly the primes p with 2 <= p <= n, each
\* once and ascending, and the empty sequence when n < 2.
C6_SieveIsPrimes ==
    sieve_ret.called =>
        /\ StrictlyAscending(sieve_ret.val)
        /\ Elems(sieve_ret.val) = {p \in 0..n : IsPrime(p)}
        /\ n < 2 => sieve_ret.val = <<>>

\* n is the square of a prime above 3 (so n is struck out only by the last
\* i of the outer loop, at j = i * i = n) and the result ends below it.
C6_Witness ==
    /\ sieve_ret.called
    /\ n = 25
    /\ sieve_ret.val[Len(sieve_ret.val)] = 23
    /\ Len(sieve_ret.val) = 9

\* C7: count_primes(n) equals the length of prime_sieve(n), both 0 for n < 2.
C7_CountIsLength ==
    (sieve_ret.called /\ count_ret.called) =>
        /\ count_ret.val = Len(sieve_ret.val)
        /\ n < 2 => (count_ret.val = 0 /\ Len(sieve_ret.val) = 0)

\* Both entry points ran on an n with ten primes below it.
C7_Witness ==
    /\ sieve_ret.called /\ count_ret.called
    /\ n >= 30
    /\ count_ret.val = 10

\* ======================================================== matrix_multiply
\* usize is modelled USIZE_BITS wide instead of 64: the arithmetic of the
\* code (products that wrap, or panic when the build checks overflow) is the
\* same at every width, and the arguments are scaled with it.
USIZE_BITS == 8
USIZE_MAX == 2 ^ USIZE_BITS - 1
ISIZE_MAX == 2 ^ (USIZE_BITS - 1) - 1
\* size_of::<f64>()
F64_BYTES == 8

\* Row and column counts: small ones, and two above half of usize's range,
\* whose products with 2 exceed USIZE_MAX.
Dims == (1..MaxDim) \cup {ISIZE_MAX + 1, ISIZE_MAX + 2}
Entries == 1..MaxEntry
FlatVecs == UNION {[1..k -> Entries] : k \in 0..MaxFlat}

MMOk(v) == [kind |-> "Ok", val |-> v]
MMInvalidArgument == [kind |-> "InvalidArgument", val |-> <<>>]
MMPanic == [kind |-> "Panic", val |-> <<>>]

\* x * y on usize: panics in a build with overflow checks (debug), wraps
\* otherwise (release).
mul_overflows(x, y) == x * y > USIZE_MAX
wrapping_mul(x, y) == (x * y) % (USIZE_MAX + 1)

\* The index i * w + k; an index no vector has when the build checks
\* overflow and the arithmetic overflows (the access never happens).
flat_index(i, w, k, overflow_checks) ==
    IF overflow_checks /\ i * w + k > USIZE_MAX
        THEN USIZE_MAX + 1
        ELSE (i * w + k) % (USIZE_MAX + 1)

\* vec![0.0; count]: Vec panics (capacity overflow) above isize::MAX bytes.
alloc_fails(count) == count * F64_BYTES > ISIZE_MAX

\* The i-k-j loop nest from iteration (i, k, j) on; every indexing
\* expression is bounds-checked and panics out of range.
RECURSIVE mm_loop(_, _, _, _, _)
mm_loop(m, i, k, j, result) ==
    IF i >= m.rows_a
        THEN MMOk(result)
        ELSE IF k >= m.cols_a
        THEN mm_loop(m, i + 1, 0, 0, result)
        ELSE LET ia == flat_index(i, m.cols_a, k, m.overflow_checks)
             IN  IF ia >= Len(m.a)
                     THEN MMPanic
                     ELSE IF j >= m.cols_b
                     THEN mm_loop(m, i, k + 1, 0, result)
                     ELSE LET ib == flat_index(k, m.cols_b, j, m.overflow_checks)
                              ir == flat_index(i, m.cols_b, j, m.overflow_checks)
                          IN  IF ib >= Len(m.b) \/ ir >= Len(result)
                                  THEN MMPanic
                                  ELSE mm_loop(m, i, k, j + 1,
                                           [result EXCEPT ![ir + 1] =
                                                @ + m.a[ia + 1] * m.b[ib + 1]])

matrix_multiply(m) ==
    IF m.overflow_checks /\ mul_overflows(m.rows_a, m.cols_a)
        THEN MMPanic
        ELSE IF Len(m.a) # wrapping_mul(m.rows_a, m.cols_a)
        THEN MMInvalidArgument
        ELSE IF m.overflow_checks /\ mul_overflows(m.cols_a, m.cols_b)
        THEN MMPanic
        ELSE IF Len(m.b) # wrapping_mul(m.cols_a, m.cols_b)
        THEN MMInvalidArgument
        ELSE IF m.overflow_checks /\ mul_overflows(m.rows_a, m.cols_b)
        THEN MMPanic
        ELSE IF alloc_fails(wrapping_mul(m.rows_a, m.cols_b))
        THEN MMPanic
        ELSE mm_loop(m, 0, 0, 0,
                     [x \in 1..wrapping_mul(m.rows_a, m.cols_b) |-> 0])

InitMatrix ==
    /\ mm_args \in [a : FlatVecs, b : FlatVecs, rows_a : Dims, cols_a : Dims,
                    cols_b : Dims, overflow_checks : BOOLEAN]
    /\ mm_ret = NotCalled
    /\ IdleRing
    /\ data = <<>> /\ call = [op |-> "none"]
    /\ n = 0 /\ sieve_ret = NotCalled /\ count_ret = NotCalled
    /\ slug_text = <<>> /\ slug_ret = NotCalled
    /\ email_text = <<>> /\ email_ret = NotCalled

CallMatrixMultiply ==
    /\ ~mm_ret.called
    /\ mm_ret' = Returned(matrix_multiply(mm_args))
    /\ UNCHANGED <<mm_args, ringVars, setVars, sieveVars, slugVars, emailVars>>

NextMatrix == CallMatrixMultiply

SpecMatrix == InitMatrix /\ [][NextMatrix]_vars

\* a.length != rowsA*colsA or b.length != colsA*colsB, over the integers.
DimensionMismatch(m) ==
    \/ Len(m.a) # m.rows_a * m.cols_a
    \/ Len(m.b) # m.cols_a * m.cols_b

\* C9: matrix_multiply fails with InvalidArgument, with no output, exactly
\* when a.length != rowsA*colsA or b.length != colsA*colsB; in every other
\* case it succeeds and returns a sequence of length rowsA*colsB.
C9_ValidationExact ==
    mm_ret.called =>
        /\ (mm_ret.val.kind = "InvalidArgument") <=> DimensionMismatch(mm_args)
        /\ ~DimensionMismatch(mm_args) =>
              /\ mm_ret.val.kind = "Ok"
              /\ Len(mm_ret.val.val) = mm_args.rows_a * mm_args.cols_b

\* No product of two of the three counts exceeds usize.
ProductsFit(m) ==
    /\ ~mul_overflows(m.rows_a, m.cols_a)
    /\ ~mul_overflows(m.cols_a, m.cols_b)
    /\ ~mul_overflows(m.rows_a, m.cols_b)

\* What is left of C9 on the code: the statement holds for the calls in which
\* the three products fit in usize.
MatrixValidationExactWhenProductsFit ==
    (mm_ret.called /\ ProductsFit(mm_args)) =>
        /\ (mm_ret.val.kind = "InvalidArgument") <=> DimensionMismatch(mm_args)
        /\ ~DimensionMismatch(mm_args) =>
              /\ mm_ret.val.kind = "Ok"
              /\ Len(mm_ret.val.val) = mm_args.rows_a * mm_args.cols_b

\* ================================================================ slugify
AsciiLower == {"a", "b"}
AsciiUpper == {"A", "B"}
AsciiDigit == {"7"}

is_ascii_alphanumeric(ch) == ch \in AsciiLower \cup AsciiUpper \cup AsciiDigit

to_ascii_lowercase(ch) ==
    CASE ch = "A" -> "a"
      [] ch = "B" -> "b"
      [] OTHER -> ch

\* A lower-case letter, an upper-case letter, a digit, the dash itself, a
\* blank, and U+00E9 (e with acute accent: alphabetic, but not ASCII), which
\* is written here by its code point.
SlugChars == {"a", "B", "7", "-", " ", "U+00E9"}
SlugTexts == UNION {[1..k -> SlugChars] : k \in 0..MaxSlugLen}

\* The for loop over text.chars() from the i-th char on (1-based).
RECURSIVE slug_scan(_, _, _, _)
slug_scan(text, i, slug, last_was_dash) ==
    IF i > Len(text)
        THEN slug
        ELSE IF is_ascii_alphanumeric(text[i])
        THEN slug_scan(text, i + 1, Append(slug, to_ascii_lowercase(text[i])), FALSE)
        ELSE IF ~last_was_dash
        THEN slug_scan(text, i + 1, Append(slug, "-"), TRUE)
        ELSE slug_scan(text, i + 1, slug, last_was_dash)

\* if slug.ends_with('-') { slug.pop(); }
pop_trailing_dash(slug) ==
    IF slug # <<>> /\ slug[Len(slug)] = "-"
        THEN SubSeq(slug, 1, Len(slug) - 1)
        ELSE slug

slugify_dash_may_lead(text) == pop_trailing_dash(slug_scan(text, 1, <<>>, FALSE))

slugify(text) == pop_trailing_dash(slug_scan(text, 1, <<>>, TRUE))

InitSlug ==
    /\ slug_text \in SlugTexts
    /\ slug_ret = NotCalled
    /\ IdleRing
    /\ data = <<>> /\ call = [op |-> "none"]
    /\ n = 0 /\ sieve_ret = NotCalled /\ count_ret = NotCalled
    /\ mm_args = [a |-> <<>>] /\ mm_ret = NotCalled
    /\ email_text = <<>> /\ email_ret = NotCalled

CallSlugify ==
    /\ ~slug_ret.called
    /\ slug_ret' = Returned(slugify(slug_text))
    /\ UNCHANGED <<slug_text, ringVars, setVars, sieveVars, mmVars, emailVars>>

NextSlug == CallSlugify

SpecSlug == InitSlug /\ [][NextSlug]_vars

\* C8: the slug never starts with '-', never ends with '-', never holds two
\* adjacent '-', and is empty when the text has no ASCII alphanumeric char.
C8_SlugDashes ==
    slug_ret.called =>
        LET slug == slug_ret.val
        IN  /\ slug # <<>> => (slug[1] # "-" /\ slug[Len(slug)] # "-")
            /\ \A i \in 1..(Len(slug) - 1) : ~(slug[i] = "-" /\ slug[i + 1] = "-")
            /\ (\A i \in 1..Len(slug_text) : ~is_ascii_alphanumeric(slug_text[i]))
                   => slug = <<>>

\* A separator leads, and a run of two separators trails.
C8_Witness ==
    /\ slug_ret.called
    /\ slug_text = <<" ", "B", "-", " ">>
    /\ slug_ret.val = <<"b">>

\* ========================================================= extract_emails
is_local_char(ch) == is_ascii_alphanumeric(ch) \/ ch \in {".", "_", "-", "+"}
is_domain_char(ch) == is_ascii_alphanumeric(ch) \/ ch \in {".", "-"}

EmailChars == {"a", "@", ".", "+", " "}
EmailTexts == UNION {[1..k -> EmailChars] : k \in 0..MaxEmailLen}

\* while start > 0 { if local char at start - 1 { start -= 1 } else { break } }
\* (start is a 0-based index, chars[start - 1] is the 1-based chars[start]).
RECURSIVE scan_backwards(_, _)
scan_backwards(chars, start) ==
    IF start > 0 /\ is_local_char(chars[start])
        THEN scan_backwards(chars, start - 1)
        ELSE start

\* while end < len { if domain char at end { note '.'; end += 1 } else { break } }
RECURSIVE scan_forwards(_, _, _)
scan_forwards(chars, end, has_dot) ==
    IF end < Len(chars) /\ is_domain_char(chars[end + 1])
        THEN scan_forwards(chars, end + 1, has_dot \/ chars[end + 1] = ".")
        ELSE [end |-> end, has_dot |-> has_dot]

\* str::trim_end_matches('.')
RECURSIVE trim_end_dots(_)
trim_end_dots(s) ==
    IF s # <<>> /\ s[Len(s)] = "."
        THEN trim_end_dots(SubSeq(s, 1, Len(s) - 1))
        ELSE s

\* The for loop over i in 0..len from index i on (0-based).
RECURSIVE email_loop(_, _, _)
email_loop(chars, i, emails) ==
    IF i >= Len(chars)
        THEN emails
        ELSE IF chars[i + 1] = "@" /\ i > 0 /\ i < Len(chars) - 1
        THEN LET start == scan_backwards(chars, i)
                 fwd == scan_forwards(chars, i + 1, FALSE)
                 email == trim_end_dots(SubSeq(chars, start + 1, fwd.end))
             IN  IF start < i /\ fwd.end > i + 1 /\ fwd.has_dot
                         /\ email \notin Elems(emails)
                     THEN email_loop(chars, i + 1, Append(emails, email))
                     ELSE email_loop(chars, i + 1, emails)
        ELSE email_loop(chars, i + 1, emails)

extract_emails(text) == email_loop(text, 0, <<>>)

InitEmail ==
    /\ email_text \in EmailTexts
    /\ email_ret = NotCalled
    /\ IdleRing
    /\ data = <<>> /\ call = [op |-> "none"]
    /\ n = 0 /\ sieve_ret = NotCalled /\ count_ret = NotCalled
    /\ mm_args = [a |-> <<>>] /\ mm_ret = NotCalled
    /\ slug_text = <<>> /\ slug_ret = NotCalled

CallExtractEmails ==
    /\ ~email_ret.called
    /\ email_ret' = Returned(extract_emails(email_text))
    /\ UNCHANGED <<email_text, ringVars, setVars, sieveVars, mmVars, slugVars>>

NextEmail == CallExtractEmails

SpecEmail == InitEmail /\ [][NextEmail]_vars

\* e is local@domain with a non-empty local part and a non-empty domain part.
HasLocalAndDomain(e) ==
    \E p \in 1..Len(e) : e[p] = "@" /\ p > 1 /\ p < Len(e)

\* C5: every string extract_emails returns, as returned (trailing '.'
\* trimmed), is local@domain with a non-empty local part before the '@' and
\* a non-empty domain part after it.
C5_LocalAndDomainNonEmpty ==
    email_ret.called =>
        \A x \in 1..Len(email_ret.val) : HasLocalAndDomain(email_ret.val[x])

====
